---- MODULE Spec2Model ----
(***************************************************************************)
(* Gacha draw engine of astrbot_plugin_ww_gacha_sim.                       *)
(*                                                                         *)
(* The draw step follows src/gacha_flowchart.md node by node.  The parts   *)
(* the flowchart only names (caculate_rate_5star, the UP decision, the     *)
(* item selector, the config validator, drawBatch) are taken from the      *)
(* design document, sections 3-7.                                          *)
(*                                                                         *)
(* Probabilities are fixed-point numbers: the rate x in [0,1] is the       *)
(* integer x * Scale, and a uniform random value in [0,1) is an integer    *)
(* in 0 .. Scale-1.                                                        *)
(***************************************************************************)
EXTENDS Integers, Sequences, FiniteSets, TLC

VARIABLES
    config,      \* the BannerConfig of the session
    state,       \* the session's PityState
    input,       \* the PityState handed to the most recent draw
    last,        \* outcome of the most recent draw
    prior5,      \* is_rate_up of the latest 5-star result before the most recent draw
    batch,       \* bookkeeping of the batch session (drawBatch against single draws)
    sessions,    \* the sessions that draw side by side, each with a PityState of its own
    editor,      \* the config editor (ConfigEditor and the App around it)
    form,        \* the banner form (BannerManager)
    app          \* the App against the backend: config files, item tables, requests in flight

vars == <<config, state, input, last, prior5, batch, sessions, editor, form, app>>

\* what a draw session leaves alone
others == <<sessions, editor, form, app>>

\* ---------------------------------------------------------------- numbers

Scale == 1000

\* floating tolerance of the base-rate sum at validation time (0.01)
Tolerance == Scale \div 100

\* the model stops a session whose counter is MaxOver pulls past its hard
\* pity pull (only a hard_pity_rate below 1 lets a counter get there)
MaxOver == 2

\* longest batch the batch session draws
MaxBatch == 2

\* draws of the batch session before its batch starts
MaxWarmup == 2

\* draws of each of the sessions that draw side by side
MaxSessionDraws == 2

Min(a, b) == IF a < b THEN a ELSE b

Max(a, b) == IF a > b THEN a ELSE b

\* a number of the web code: an integer (a rate in fixed point), or NaN
NaN == [nan |-> TRUE, v |-> 0]

Num(v) == [nan |-> FALSE, v |-> v]

\* ------------------------------------------------------------ data model

FiveStar == "5star"
FourStar == "4star"
ThreeStar == "3star"

InitialPityState ==
    [pulls_since_5star |-> 0, pulls_since_4star |-> 0,
     guaranteed_5star_up |-> FALSE, guaranteed_4star_up |-> FALSE]

SoftPityInterval(s, e, inc) == [start_pull |-> s, end_pull |-> e, increment |-> inc]

ProbabilityProgression(hard, rate, soft) ==
    [hard_pity_pull |-> hard, hard_pity_rate |-> rate, soft_pity |-> soft]

ProbabilitySettings(b5, b4, b3, u5, u4) ==
    [base_5star_rate |-> b5, base_4star_rate |-> b4, base_3star_rate |-> b3,
     up_5star_rate |-> u5, up_4star_rate |-> u4, four_star_character_rate |-> Scale \div 2]

ItemPools(up5, inc5, up4, inc4, inc3) ==
    [rate_up_item_ids |-> (FiveStar :> up5 @@ FourStar :> up4),
     included_item_ids |-> (FiveStar :> inc5 @@ FourStar :> inc4 @@ ThreeStar :> inc3)]

PoolConfig(ps, p5, p4, pools) ==
    [probability_settings |-> ps,
     rate_up_item_ids |-> pools.rate_up_item_ids,
     included_item_ids |-> pools.included_item_ids,
     probability_progression |-> (FiveStar :> p5 @@ FourStar :> p4)]

\* the editor's template for a new config
DEFAULT_CONFIG ==
    PoolConfig(ProbabilitySettings(8, 60, 932, 500, 500),
               ProbabilityProgression(80, Scale, <<SoftPityInterval(74, 79, 60)>>),
               ProbabilityProgression(10, Scale, <<>>),
               ItemPools({}, {}, {}, {}, {}))

\* DEFAULT_CONFIG with items put into its pools
DefaultWithPools ==
    [DEFAULT_CONFIG EXCEPT
        !.rate_up_item_ids = (FiveStar :> {51} @@ FourStar :> {41}),
        !.included_item_ids = (FiveStar :> {51, 52} @@ FourStar :> {41, 42} @@ ThreeStar :> {31})]

\* ------------------------------------------------------- config validator

RateInRange(x) == x >= 0 /\ x <= Scale

\* rate ranges: every probability and rate value lies in [0,1]
RateRangesOk(c) ==
    /\ \A f \in DOMAIN c.probability_settings : RateInRange(c.probability_settings[f])
    /\ \A t \in {FiveStar, FourStar} :
          LET pp == c.probability_progression[t] IN
          /\ RateInRange(pp.hard_pity_rate)
          /\ \A i \in 1..Len(pp.soft_pity) : RateInRange(pp.soft_pity[i].increment)

\* base rates across tiers sum to 1 (within the tolerance)
BaseRateSumOk(c) ==
    LET ps == c.probability_settings
        total == ps.base_5star_rate + ps.base_4star_rate + ps.base_3star_rate
    IN total - Scale <= Tolerance /\ Scale - total <= Tolerance

\* start_pull < end_pull, ranges increasing and non-overlapping
SoftPityOrdered(soft) ==
    /\ \A i \in 1..Len(soft) : soft[i].start_pull >= 1 /\ soft[i].start_pull < soft[i].end_pull
    /\ \A i \in 1..Len(soft) : \A j \in 1..Len(soft) :
          i < j => soft[i].end_pull < soft[j].start_pull

\* hard_pity_pull is an int >= 1 and exceeds every end_pull
HardPityExceedsSoft(pp) ==
    /\ pp.hard_pity_pull >= 1
    /\ \A i \in 1..Len(pp.soft_pity) : pp.hard_pity_pull > pp.soft_pity[i].end_pull

BaseRateOf(c, t) ==
    IF t = FiveStar THEN c.probability_settings.base_5star_rate
    ELSE IF t = FourStar THEN c.probability_settings.base_4star_rate
    ELSE c.probability_settings.base_3star_rate

\* for any tier with base rate > 0 the included pool is non-empty
IncludedPoolsOk(c) ==
    \A t \in {FiveStar, FourStar, ThreeStar} :
        BaseRateOf(c, t) > 0 => c.included_item_ids[t] # {}

\* UP ids are a subset of the included ids of their tier
UpSubsetOk(c) ==
    \A t \in {FiveStar, FourStar} : c.rate_up_item_ids[t] \subseteq c.included_item_ids[t]

Validate(c) ==
    /\ RateRangesOk(c)
    /\ BaseRateSumOk(c)
    /\ \A t \in {FiveStar, FourStar} :
          /\ SoftPityOrdered(c.probability_progression[t].soft_pity)
          /\ HardPityExceedsSoft(c.probability_progression[t])
    /\ IncludedPoolsOk(c)
    /\ UpSubsetOk(c)

\* ------------------------------------------------------- effective rates

RECURSIVE SoftPitySum(_, _)
\* sum of the increments of the intervals with start_pull <= k
SoftPitySum(soft, k) ==
    IF soft = <<>> THEN 0
    ELSE (IF Head(soft).start_pull <= k THEN Head(soft).increment ELSE 0)
         + SoftPitySum(Tail(soft), k)

\* rate sums above 1 are clamped to 1 before the comparison draw
ClampRate(x) == Min(Scale, x)

\* effective rate of a tier at pull index k
EffectiveRate(base, pp, k) ==
    IF k >= pp.hard_pity_pull THEN pp.hard_pity_rate
    ELSE ClampRate(base + SoftPitySum(pp.soft_pity, k))

caculate_rate_5star(c, k) ==
    EffectiveRate(c.probability_settings.base_5star_rate, c.probability_progression[FiveStar], k)

caculate_rate_4star(c, k) ==
    EffectiveRate(c.probability_settings.base_4star_rate, c.probability_progression[FourStar], k)

\* ---------------------------------------------------------- item selector

UpPool(c, t) == c.rate_up_item_ids[t]

\* slip: the operands of the set difference swapped
NonUpPoolSwapped(c, t) == c.rate_up_item_ids[t] \ c.included_item_ids[t]

NonUpPool(c, t) == c.included_item_ids[t] \ c.rate_up_item_ids[t]

\* uniform choice over a non-empty pool: the random index p picks the
\* (p mod |pool|)-th smallest id
Select(pool, p) ==
    CHOOSE x \in pool : Cardinality({y \in pool : y < x}) = p % Cardinality(pool)

\* ------------------------------------------------------------ draw engine

NoResult == [item_id |-> 0, rarity |-> "none", is_rate_up |-> FALSE]

DrawResult(item, rarity, is_up) == [item_id |-> item, rarity |-> rarity, is_rate_up |-> is_up]

\* the engine refuses: no result, the caller's PityState as it was
Failure(kind, s) == [kind |-> kind, result |-> NoResult, state |-> s]

\* select from the pool and return the result with the updated state;
\* an empty pool is an EmptyPoolError, never a fallback to another pool
SelectFrom(pool, rnd, rarity, is_up, new, s) ==
    IF pool = {} THEN Failure("EmptyPoolError", s)
    ELSE [kind |-> "ok", result |-> DrawResult(Select(pool, rnd.pick), rarity, is_up), state |-> new]

\* slip: the rate is computed for the pity count itself
PullIndexOffByOne(pity) == pity

\* the pull index a rate is computed for: pity + 1
PullIndex(pity) == pity + 1

\* reset the 5-star pity count to 0
ResetPity5(s) == 0

\* slip: a 5-star hit counts as one more pull without a 4-star result
Pity4CountedAfterFiveStar(c, s) == s.pulls_since_4star + 1

\* slip: a 5-star hit never touches the 4-star pity count
Pity4KeptAfterFiveStar(c, s) == s.pulls_since_4star

\* check whether the 4-star hard pity is reached; reset the 4-star pity count if needed
Pity4AfterFiveStar(c, s) ==
    IF PullIndex(s.pulls_since_4star) >= c.probability_progression[FourStar].hard_pity_pull
    THEN 0
    ELSE s.pulls_since_4star

\* reset the 4-star pity count to 0
ResetPity4(s) == 0

\* slip: a 4-star hit does not count as a pull without 5-star
Pity5KeptAfterFourStar(s) == s.pulls_since_5star

\* a 4-star hit: 5-star pity count + 1
Pity5AfterFourStar(s) == s.pulls_since_5star + 1

\* a 3-star result: each pity count + 1
Pity5AfterThreeStar(s) == s.pulls_since_5star + 1

\* slip: a 3-star result advances the 5-star pity count only
Pity4KeptAfterThreeStar(s) == s.pulls_since_4star

Pity4AfterThreeStar(s) == s.pulls_since_4star + 1

\* is the hit a UP item: forced by the guaranteed flag, else a roll against the up rate
IsUpHit(guaranteed, up_rate, roll) == guaranteed \/ roll < up_rate

\* slip: a non-UP hit does not set the flag
GuaranteedNeverSet(is_up) == FALSE

\* slip: the flag is set by a UP hit and cleared by a non-UP hit
GuaranteedCopiesUp(is_up) == is_up

\* UP item: guaranteed = False; non-UP item: guaranteed = True
GuaranteedAfterHit(is_up) == ~is_up

\* slip: a UP 5-star hit selects among all included 5-star items
FiveStarHitFromIncluded(c, s, rnd) ==
    LET is_up == IsUpHit(s.guaranteed_5star_up, c.probability_settings.up_5star_rate, rnd.up)
        new == [s EXCEPT !.pulls_since_5star = ResetPity5(s),
                         !.pulls_since_4star = Pity4AfterFiveStar(c, s),
                         !.guaranteed_5star_up = GuaranteedAfterHit(is_up)]
    IN SelectFrom(IF is_up THEN c.included_item_ids[FiveStar] ELSE NonUpPool(c, FiveStar),
                  rnd, FiveStar, is_up, new, s)

FiveStarHit(c, s, rnd) ==
    LET is_up == IsUpHit(s.guaranteed_5star_up, c.probability_settings.up_5star_rate, rnd.up)
        new == [s EXCEPT !.pulls_since_5star = ResetPity5(s),
                         !.pulls_since_4star = Pity4AfterFiveStar(c, s),
                         !.guaranteed_5star_up = GuaranteedAfterHit(is_up)]
    IN SelectFrom(IF is_up THEN UpPool(c, FiveStar) ELSE NonUpPool(c, FiveStar),
                  rnd, FiveStar, is_up, new, s)

\* slip: a non-UP 4-star hit selects among all included 4-star items
FourStarHitNonUpFromIncluded(c, s, rnd) ==
    LET is_up == IsUpHit(s.guaranteed_4star_up, c.probability_settings.up_4star_rate, rnd.up)
        new == [s EXCEPT !.pulls_since_4star = ResetPity4(s),
                         !.pulls_since_5star = Pity5AfterFourStar(s),
                         !.guaranteed_4star_up = GuaranteedAfterHit(is_up)]
    IN SelectFrom(IF is_up THEN UpPool(c, FourStar) ELSE c.included_item_ids[FourStar],
                  rnd, FourStar, is_up, new, s)

FourStarHit(c, s, rnd) ==
    LET is_up == IsUpHit(s.guaranteed_4star_up, c.probability_settings.up_4star_rate, rnd.up)
        new == [s EXCEPT !.pulls_since_4star = ResetPity4(s),
                         !.pulls_since_5star = Pity5AfterFourStar(s),
                         !.guaranteed_4star_up = GuaranteedAfterHit(is_up)]
    IN SelectFrom(IF is_up THEN UpPool(c, FourStar) ELSE NonUpPool(c, FourStar),
                  rnd, FourStar, is_up, new, s)

\* slip: a 3-star result clears both guaranteed flags
ThreeStarResultClearsFlags(c, s, rnd) ==
    LET new == [s EXCEPT !.pulls_since_5star = Pity5AfterThreeStar(s),
                         !.pulls_since_4star = Pity4AfterThreeStar(s),
                         !.guaranteed_5star_up = FALSE,
                         !.guaranteed_4star_up = FALSE]
    IN SelectFrom(c.included_item_ids[ThreeStar], rnd, ThreeStar, FALSE, new, s)

ThreeStarResult(c, s, rnd) ==
    LET new == [s EXCEPT !.pulls_since_5star = Pity5AfterThreeStar(s),
                         !.pulls_since_4star = Pity4AfterThreeStar(s)]
    IN SelectFrom(c.included_item_ids[ThreeStar], rnd, ThreeStar, FALSE, new, s)

\* slip: the 4-star check draws a random value of its own (here the mirror
\* image of local_random)
TierOfSecondSample(c, s, local_random) ==
    IF local_random < caculate_rate_5star(c, PullIndex(s.pulls_since_5star))
    THEN FiveStar
    ELSE IF Scale - 1 - local_random < caculate_rate_4star(c, PullIndex(s.pulls_since_4star))
         THEN FourStar
         ELSE ThreeStar

\* slip: the 4-star rate is computed for the 5-star pity count
TierOfFourStarByPity5(c, s, local_random) ==
    IF local_random < caculate_rate_5star(c, PullIndex(s.pulls_since_5star))
    THEN FiveStar
    ELSE IF local_random < caculate_rate_4star(c, PullIndex(s.pulls_since_5star))
         THEN FourStar
         ELSE ThreeStar

\* the tier of a pull: local_random < 5-star rate, else local_random <
\* 4-star rate (the same random value), else 3-star
TierOf(c, s, local_random) ==
    IF local_random < caculate_rate_5star(c, PullIndex(s.pulls_since_5star))
    THEN FiveStar
    ELSE IF local_random < caculate_rate_4star(c, PullIndex(s.pulls_since_4star))
         THEN FourStar
         ELSE ThreeStar

\* one pull against a validated config
DrawOnce(c, s, rnd) ==
    LET tier == TierOf(c, s, rnd.tier) IN
    IF tier = FiveStar THEN FiveStarHit(c, s, rnd)
    ELSE IF tier = FourStar THEN FourStarHit(c, s, rnd)
    ELSE ThreeStarResult(c, s, rnd)

\* a supplied PityState with a negative counter is an InvalidStateError
ValidState(s) == s.pulls_since_5star >= 0 /\ s.pulls_since_4star >= 0

\* slip: the engine runs against whatever config it is handed
DrawUnvalidated(c, s, rnd) ==
    IF ~ValidState(s) THEN Failure("InvalidStateError", s)
    ELSE DrawOnce(c, s, rnd)

\* slip: negative counters are clamped to 0 and the draw goes on
DrawRepairsState(c, s, rnd) ==
    IF ~Validate(c) THEN Failure("ConfigValidationError", s)
    ELSE DrawOnce(c, [s EXCEPT !.pulls_since_5star = Max(0, @),
                               !.pulls_since_4star = Max(0, @)], rnd)

\* draw(config, state) with the random source's values rnd: a config that
\* fails validation is refused before any draw, a PityState with a negative
\* counter is rejected, not repaired
Draw(c, s, rnd) ==
    IF ~Validate(c) THEN Failure("ConfigValidationError", s)
    ELSE IF ~ValidState(s) THEN Failure("InvalidStateError", s)
    ELSE DrawOnce(c, s, rnd)

\* slip: every draw of the batch starts from the state the batch was called with
RECURSIVE DrawBatchUnthreaded(_, _, _, _)
DrawBatchUnthreaded(c, s, rnds, acc) ==
    IF rnds = <<>> THEN [kind |-> "ok", results |-> acc, state |-> s]
    ELSE LET out == DrawOnce(c, s, Head(rnds)) IN
         IF out.kind # "ok" THEN [kind |-> out.kind, results |-> <<>>, state |-> s]
         ELSE DrawBatchUnthreaded(c, s, Tail(rnds), Append(acc, out.result))

RECURSIVE DrawBatchFrom(_, _, _, _)
\* the fold: one draw per random record, each from the state the draw before
\* it returned, the results collected in draw order; a draw that fails
\* fails the call
DrawBatchFrom(c, s, rnds, acc) ==
    IF rnds = <<>> THEN [kind |-> "ok", results |-> acc, state |-> s]
    ELSE LET out == DrawOnce(c, s, Head(rnds)) IN
         IF out.kind # "ok" THEN [kind |-> out.kind, results |-> <<>>, state |-> s]
         ELSE DrawBatchFrom(c, out.state, Tail(rnds), Append(acc, out.result))

\* drawBatch(config, state, n) with the random source's values rnds, n = Len(rnds):
\* a config that fails validation fails the batch before any draw; a failed
\* call returns no result and leaves the caller's PityState as it was
DrawBatch(c, s, rnds) ==
    IF ~Validate(c) THEN [kind |-> "ConfigValidationError", results |-> <<>>, state |-> s]
    ELSE IF ~ValidState(s) THEN [kind |-> "InvalidStateError", results |-> <<>>, state |-> s]
    ELSE LET out == DrawBatchFrom(c, s, rnds, <<>>) IN
         IF out.kind = "ok" THEN out ELSE [out EXCEPT !.state = s]

\* ------------------------------------------------- configs of the sessions

SettingsOptions ==
    { ProbabilitySettings(8, 60, 932, 500, 500),     \* the rates of DEFAULT_CONFIG
      ProbabilitySettings(500, 500, 0, 0, Scale),    \* no 3-star mass, extreme UP rates
      ProbabilitySettings(0, 300, 700, 500, 500),    \* 5-star by pity only
      ProbabilitySettings(600, 600, 0, 500, 500),    \* base rates sum to 1.2
      ProbabilitySettings(8, 60, 932, Scale + 500, 500) }  \* UP rate out of range

FiveStarProgressions ==
    { ProbabilityProgression(4, Scale, <<SoftPityInterval(2, 3, 60)>>),
      ProbabilityProgression(3, Scale, <<>>),
      ProbabilityProgression(5, Scale, <<SoftPityInterval(1, 2, 300), SoftPityInterval(3, 4, 600)>>),
      ProbabilityProgression(3, Scale \div 2, <<>>),
      ProbabilityProgression(3, Scale, <<SoftPityInterval(2, 3, 60)>>),
      ProbabilityProgression(5, Scale, <<SoftPityInterval(1, 3, 60), SoftPityInterval(2, 4, 60)>>) }

FourStarProgressions ==
    { ProbabilityProgression(2, Scale, <<>>),
      ProbabilityProgression(3, Scale, <<SoftPityInterval(1, 2, 100)>>),
      ProbabilityProgression(2, Scale \div 2, <<>>) }

PoolOptions ==
    { ItemPools({51}, {51, 52}, {41}, {41, 42}, {31, 32}),   \* UP and non-UP items in both tiers
      ItemPools({}, {51}, {41}, {41}, {31}),                 \* no 5-star UP item, every 4-star item UP
      ItemPools({51}, {51, 52}, {41}, {41, 42}, {}),         \* no 3-star item
      ItemPools({}, {}, {41}, {41, 42}, {31}),               \* no 5-star item
      ItemPools({51}, {52}, {41}, {41, 42}, {31}),           \* UP id outside the included ids
      ItemPools({}, {}, {}, {}, {}) }                        \* the pools of DEFAULT_CONFIG

CandidateConfigs ==
    { PoolConfig(ps, p5, p4, pools) :
        ps \in SettingsOptions, p5 \in FiveStarProgressions,
        p4 \in FourStarProgressions, pools \in PoolOptions }
    \cup {DEFAULT_CONFIG}

\* ---------------------------------------------------------- random source

\* the two effective rates a draw from state s compares local_random with
RatesOf(c, s) ==
    { caculate_rate_5star(c, PullIndex(s.pulls_since_5star)),
      caculate_rate_4star(c, PullIndex(s.pulls_since_4star)) }

\* a draw reads a random value only through comparisons with a rate, so the
\* values on both sides of each rate stand for every value of [0,1)
NextTo(rates) == (rates \cup { x - 1 : x \in rates }) \cap (0..(Scale - 1))

\* the selector reads the random index modulo the pool's size
LargestPool(c) ==
    Max(1, Max(Cardinality(c.included_item_ids[FiveStar]),
               Max(Cardinality(c.included_item_ids[FourStar]),
                   Cardinality(c.included_item_ids[ThreeStar]))))

\* the values the random source hands to one draw from state s: for the
\* tier decision, for the UP roll and for the item selection
RandomValues(c, s) ==
    [tier : NextTo(RatesOf(c, s)),
     up : NextTo({c.probability_settings.up_5star_rate, c.probability_settings.up_4star_rate}),
     pick : 0..(LargestPool(c) - 1)]

\* ------------------------------------------------------- the draw session

NoCall == [kind |-> "none", results |-> <<>>, state |-> InitialPityState]

\* phase: off (no batch session), warmup, single (single draws are recorded),
\* done (drawBatch was called); start: the PityState the recorded draws
\* started from; rnds, results: the random values the recorded single draws
\* consumed and the results they returned; failed: one of them failed;
\* call: what drawBatch returned
NoBatch == [phase |-> "off", warmup |-> 0, start |-> InitialPityState, rnds |-> <<>>,
            results |-> <<>>, failed |-> FALSE, call |-> NoCall]

NoDraw == [kind |-> "none", result |-> NoResult, local_random |-> 0, up_roll |-> 0]

\* no side-by-side sessions, the editor and the banner form not opened
NoSessions == <<>>

NoEditor == [view |-> "off"]

NoForm == [open |-> FALSE]

NoApp == [view |-> "off"]

OthersIdle == sessions = NoSessions /\ editor = NoEditor /\ form = NoForm /\ app = NoApp

Init ==
    /\ config \in CandidateConfigs
    /\ state = InitialPityState
    /\ input = InitialPityState
    /\ last = NoDraw
    /\ prior5 = "none"
    /\ batch = NoBatch
    /\ OthersIdle

\* the 5-star result the next draw's 5-star result follows
Prior5After(l, p) ==
    IF l.kind = "ok" /\ l.result.rarity = FiveStar
    THEN (IF l.result.is_rate_up THEN "up" ELSE "nonup")
    ELSE p

WithinBound(c, s) ==
    /\ s.pulls_since_5star < c.probability_progression[FiveStar].hard_pity_pull + MaxOver
    /\ s.pulls_since_4star < c.probability_progression[FourStar].hard_pity_pull + MaxOver

\* the session calls draw(config, state) and keeps the returned PityState
DrawRequest ==
    /\ WithinBound(config, state)
    /\ \E rnd \in RandomValues(config, state) :
          \E out \in {Draw(config, state, rnd)} :
          /\ state' = out.state
          /\ input' = state
          /\ last' = [kind |-> out.kind, result |-> out.result, local_random |-> rnd.tier,
                      up_roll |-> rnd.up]
          /\ prior5' = Prior5After(last, prior5)
    /\ UNCHANGED <<config, batch, others>>

Next == DrawRequest

Spec == Init /\ [][Next]_vars

\* the same session, also against DEFAULT_CONFIG's rates and pity pulls
InitDefault ==
    /\ config \in CandidateConfigs \cup {DefaultWithPools}
    /\ state = InitialPityState
    /\ input = InitialPityState
    /\ last = NoDraw
    /\ prior5 = "none"
    /\ batch = NoBatch
    /\ OthersIdle

SpecDefault == InitDefault /\ [][Next]_vars

\* ------------------------------------------------------ the batch session

\* a config of every kind: usable pools, no 5-star UP item, and DEFAULT_CONFIG
BatchConfigs ==
    { PoolConfig(ProbabilitySettings(8, 60, 932, 500, 500),
                 ProbabilityProgression(4, Scale, <<SoftPityInterval(2, 3, 60)>>),
                 ProbabilityProgression(3, Scale, <<SoftPityInterval(1, 2, 100)>>),
                 pools) :
        pools \in { ItemPools({51}, {51, 52}, {41}, {41, 42}, {31, 32}),
                    ItemPools({}, {51}, {41}, {41}, {31}) } }
    \cup {DEFAULT_CONFIG}

InitBatch ==
    /\ config \in BatchConfigs
    /\ state = InitialPityState
    /\ input = InitialPityState
    /\ last = NoDraw
    /\ prior5 = "none"
    /\ batch = [NoBatch EXCEPT !.phase = "warmup"]
    /\ OthersIdle

\* a draw before the batch
WarmupDraw ==
    /\ batch.phase = "warmup"
    /\ batch.warmup < MaxWarmup
    /\ \E rnd \in RandomValues(config, state) :
          \E out \in {Draw(config, state, rnd)} :
          /\ state' = out.state
          /\ input' = state
          /\ last' = [kind |-> out.kind, result |-> out.result, local_random |-> rnd.tier,
                      up_roll |-> rnd.up]
          /\ prior5' = Prior5After(last, prior5)
    /\ batch' = [batch EXCEPT !.warmup = @ + 1]
    /\ UNCHANGED <<config, others>>

\* from here on the single draws are recorded; a copy of the PityState is
\* kept for the drawBatch call
BeginBatch ==
    /\ batch.phase = "warmup"
    /\ batch' = [batch EXCEPT !.phase = "single", !.start = state]
    /\ input' = state
    /\ last' = NoDraw
    /\ prior5' = "none"
    /\ UNCHANGED <<config, state, others>>

\* a single draw call, the returned state threaded into the next call
SingleDraw ==
    /\ batch.phase = "single"
    /\ ~batch.failed
    /\ Len(batch.rnds) < MaxBatch
    /\ \E rnd \in RandomValues(config, state) :
          \E out \in {Draw(config, state, rnd)} :
          /\ state' = out.state
          /\ input' = state
          /\ last' = [kind |-> out.kind, result |-> out.result, local_random |-> rnd.tier,
                      up_roll |-> rnd.up]
          /\ prior5' = Prior5After(last, prior5)
          /\ batch' = [batch EXCEPT
                          !.rnds = Append(@, rnd),
                          !.results = IF out.kind = "ok" THEN Append(@, out.result) ELSE @,
                          !.failed = out.kind # "ok"]
    /\ UNCHANGED <<config, others>>

\* drawBatch(config, start, n) consuming the random values the n single draws consumed
BatchCall ==
    /\ batch.phase = "single"
    /\ Len(batch.rnds) >= 1
    /\ batch' = [batch EXCEPT !.phase = "done",
                              !.call = DrawBatch(config, batch.start, batch.rnds)]
    /\ UNCHANGED <<config, state, input, last, prior5, others>>

NextBatch == WarmupDraw \/ BeginBatch \/ SingleDraw \/ BatchCall

SpecBatch == InitBatch /\ [][NextBatch]_vars

\* ------------------------------------------- a reloaded PityState

\* a PityState the caller persisted and reloaded: counters from -1 on, any flags
SuppliedStates ==
    [pulls_since_5star : -1..1, pulls_since_4star : -1..1,
     guaranteed_5star_up : BOOLEAN, guaranteed_4star_up : BOOLEAN]

\* the session starts from a reloaded PityState
InitSupplied ==
    /\ config \in BatchConfigs
    /\ state \in SuppliedStates
    /\ input = state
    /\ last = NoDraw
    /\ prior5 = "none"
    /\ batch = NoBatch
    /\ OthersIdle

SpecSupplied == InitSupplied /\ [][Next]_vars

\* ------------------------------------------- sessions drawing side by side

\* two players on one banner, each with a PityState of its own
Sessions == {"a", "b"}

NewSession == [state |-> InitialPityState, rnds |-> <<>>, outcomes |-> <<>>]

\* own: each session's PityState, the random values its draws consumed and
\* what they returned; retained: the PityState the engine returned last;
\* lastp, switches: who drew last and how often the drawing session changed
InitSessions ==
    /\ config \in BatchConfigs \ {DEFAULT_CONFIG}
    /\ state = InitialPityState
    /\ input = InitialPityState
    /\ last = NoDraw
    /\ prior5 = "none"
    /\ batch = NoBatch
    /\ sessions = [own |-> [p \in Sessions |-> NewSession],
                   retained |-> InitialPityState, lastp |-> "none", switches |-> 0]
    /\ editor = NoEditor
    /\ form = NoForm
    /\ app = NoApp

\* the smallest and the largest value of the random source
SessionRandoms == [tier : {0, Scale - 1}, up : {0, Scale - 1}, pick : {0}]

\* slip: the engine draws from the counters and flags it kept from the call before
EngineCallRetained(c, s, retained, rnd) == Draw(c, retained, rnd)

\* a call of the engine: the PityState is passed in and returned, nothing
\* is kept between calls
EngineCall(c, s, retained, rnd) == Draw(c, s, rnd)

\* session p calls draw with its own PityState and keeps the returned one
SessionDraw(p) ==
    /\ sessions # NoSessions
    /\ Len(sessions.own[p].rnds) < MaxSessionDraws
    /\ \E rnd \in SessionRandoms :
          \E out \in {EngineCall(config, sessions.own[p].state, sessions.retained, rnd)} :
          sessions' =
              [own |-> [sessions.own EXCEPT ![p] =
                           [state |-> out.state,
                            rnds |-> Append(@.rnds, rnd),
                            outcomes |-> Append(@.outcomes, [kind |-> out.kind, result |-> out.result])]],
               retained |-> out.state,
               lastp |-> p,
               switches |-> IF sessions.lastp \in {"none", p} THEN sessions.switches
                            ELSE sessions.switches + 1]
    /\ UNCHANGED <<config, state, input, last, prior5, batch, editor, form, app>>

NextSessions == SessionDraw("a") \/ SessionDraw("b")

SpecSessions == InitSessions /\ [][NextSessions]_vars

RECURSIVE RunAlone(_, _, _, _)
\* the draws of one session run alone: what they return and the final PityState
RunAlone(c, s, rnds, acc) ==
    IF rnds = <<>> THEN [state |-> s, outcomes |-> acc]
    ELSE LET out == Draw(c, s, Head(rnds)) IN
         RunAlone(c, out.state, Tail(rnds), Append(acc, [kind |-> out.kind, result |-> out.result]))

\* ------------------------------------------------------ the config editor

\* the item catalog the editor is handed (GachaItem: id and rarity)
Catalog ==
    { [id |-> 51, rarity |-> FiveStar], [id |-> 52, rarity |-> FiveStar],
      [id |-> 41, rarity |-> FourStar], [id |-> 31, rarity |-> ThreeStar] }

Rarities == {FiveStar, FourStar, ThreeStar}

\* items.filter(i => i.rarity === rarity).map(i => i.id)
IdsOfRarity(rarity) == { i.id : i \in { x \in Catalog : x.rarity = rarity } }

\* the probability_progression objects of a config and of the editor's
\* formData are the same objects until a handler replaces one by a copy
Shared == (FiveStar :> TRUE @@ FourStar :> TRUE)

\* the App shows the config list; configs: the configs the backend holds
\* (every config of the model has the same name, hence the same file);
\* defaults: the DEFAULT_CONFIG object as it is now; from: the object that
\* holds the probability_progression of the config the editor was opened
\* on ("default": DEFAULT_CONFIG, "list": the entry of configs); tier,
\* array: per rarity, is formData's progression object of the rarity, and
\* the soft_pity array it holds, the one of the config; opened: the
\* config and DEFAULT_CONFIG as they were when the editor was opened;
\* edits: calls of the pity handlers so far
ConfigList(configs) ==
    [view |-> "configs", configs |-> configs,
     editingConfig |-> DEFAULT_CONFIG, formData |-> DEFAULT_CONFIG,
     defaults |-> DEFAULT_CONFIG, from |-> "default", tier |-> Shared, array |-> Shared,
     opened |-> [config |-> DEFAULT_CONFIG, defaults |-> DEFAULT_CONFIG],
     cancelled |-> FALSE, edits |-> 0]

\* back to the config list with the configs now loaded
BackToList(e, configs) ==
    [ConfigList(configs) EXCEPT !.defaults = e.defaults, !.edits = e.edits]

\* the effect on base_5star_rate and base_4star_rate: base_3star_rate
\* becomes max(0, 1 - s5 - s4) when it differs from it
RateEffect(formData) ==
    LET s5 == formData.probability_settings.base_5star_rate
        s4 == formData.probability_settings.base_4star_rate
        s3 == Max(0, Scale - s5 - s4)
    IN IF formData.probability_settings.base_3star_rate # s3
       THEN [formData EXCEPT !.probability_settings.base_3star_rate = s3]
       ELSE formData

\* the App opens the editor on config: useState<PoolConfig>({ ...config }),
\* then the rate effect of the first render
EditorOn(e, c, from) ==
    [BackToList(e, e.configs) EXCEPT
        !.view = "editor", !.editingConfig = c, !.formData = RateEffect(c), !.from = from,
        !.opened = [config |-> c, defaults |-> e.defaults]]

InitEditor ==
    /\ config = DEFAULT_CONFIG
    /\ state = InitialPityState
    /\ input = InitialPityState
    /\ last = NoDraw
    /\ prior5 = "none"
    /\ batch = NoBatch
    /\ sessions = NoSessions
    /\ editor = ConfigList({})
    /\ form = NoForm
    /\ app = NoApp

EditorUnchanged == UNCHANGED <<config, state, input, last, prior5, batch, sessions, form, app>>

\* { ...DEFAULT_CONFIG } with rate_up_item_ids and included_item_ids
\* emptied: a new object that holds DEFAULT_CONFIG's probability_progression
handleCreateNewConfig ==
    /\ editor.view = "configs"
    /\ editor' = EditorOn(editor,
                          [editor.defaults EXCEPT
                              !.rate_up_item_ids = (FiveStar :> {} @@ FourStar :> {}),
                              !.included_item_ids = (FiveStar :> {} @@ FourStar :> {} @@ ThreeStar :> {})],
                          "default")
    /\ EditorUnchanged

\* the editor is opened on the entry of configs itself
handleEditConfig ==
    /\ editor.view = "configs"
    /\ \E c \in editor.configs : editor' = EditorOn(editor, c, "list")
    /\ EditorUnchanged

\* formData with the collection of rarity replaced: rate_up_item_ids when
\* isRateUp, else included_item_ids
WithCollection(formData, rarity, isRateUp, updated) ==
    IF isRateUp
    THEN [formData EXCEPT !.rate_up_item_ids = [@ EXCEPT ![rarity] = updated]]
    ELSE [formData EXCEPT !.included_item_ids = [@ EXCEPT ![rarity] = updated]]

CollectionOf(formData, rarity, isRateUp) ==
    IF isRateUp THEN formData.rate_up_item_ids[rarity] ELSE formData.included_item_ids[rarity]

\* the item manager of (rarity, isRateUp) is rendered for every rarity as a
\* pool and for 5-star and 4-star as rate-up
Rendered(rarity, isRateUp) == isRateUp => rarity # ThreeStar

\* the id is removed from the collection when it is in it, appended when not;
\* the managers offer every catalog item of the rarity
handleToggleItem(rarity, itemId, isRateUp) ==
    /\ editor.view = "editor"
    /\ Rendered(rarity, isRateUp)
    /\ itemId \in IdsOfRarity(rarity)
    /\ LET current == CollectionOf(editor.formData, rarity, isRateUp)
           updated == IF itemId \in current THEN current \ {itemId} ELSE current \cup {itemId}
       IN editor' = [editor EXCEPT !.formData = WithCollection(@, rarity, isRateUp, updated)]
    /\ EditorUnchanged

handleSelectAll(rarity, isRateUp) ==
    /\ editor.view = "editor"
    /\ Rendered(rarity, isRateUp)
    /\ editor' = [editor EXCEPT
                      !.formData = WithCollection(@, rarity, isRateUp, IdsOfRarity(rarity))]
    /\ EditorUnchanged

handleDeselectAll(rarity, isRateUp) ==
    /\ editor.view = "editor"
    /\ Rendered(rarity, isRateUp)
    /\ editor' = [editor EXCEPT !.formData = WithCollection(@, rarity, isRateUp, {})]
    /\ EditorUnchanged

\* the save button: onSave(formData), saveConfig posts the config as it is;
\* when the backend answers success the config list is fetched again and
\* shown, else the editor stays open
handleSaveConfig ==
    /\ editor.view = "editor"
    /\ \E success \in BOOLEAN :
          editor' = IF success THEN BackToList(editor, {editor.formData}) ELSE editor
    /\ EditorUnchanged

\* setCurrentView('configs'): the editor is unmounted, editingConfig stays
onCancel ==
    /\ editor.view = "editor"
    /\ editor' = [BackToList(editor, editor.configs) EXCEPT
                      !.editingConfig = editor.editingConfig,
                      !.opened = editor.opened,
                      !.cancelled = TRUE]
    /\ EditorUnchanged

NextEditor ==
    \/ handleCreateNewConfig
    \/ handleEditConfig
    \/ \E rarity \in Rarities, isRateUp \in BOOLEAN :
          \/ \E itemId \in IdsOfRarity(rarity) : handleToggleItem(rarity, itemId, isRateUp)
          \/ handleSelectAll(rarity, isRateUp)
          \/ handleDeselectAll(rarity, isRateUp)
    \/ handleSaveConfig
    \/ onCancel

SpecEditor == InitEditor /\ [][NextEditor]_vars

\* ------------------------------------------- the config editor: base rates

\* what is typed into a base rate field, in percent
RateInputs == {"abc", "-50", "0.8", "50", "150"}

\* parseFloat(value) / 100 as a fixed-point rate; NaN for a text that is no number
parseFloat(value) ==
    CASE value = "-50" -> Num(0 - (Scale \div 2))
      [] value = "0.8" -> Num(8)
      [] value = "50" -> Num(Scale \div 2)
      [] value = "150" -> Num(Scale + (Scale \div 2))
      [] OTHER -> NaN

\* updateRate(rarity, value): NaN becomes 0; a value that takes the sum
\* with the other tier's base rate above 1 becomes 1 - the other rate; the
\* rate effect runs with the render that follows
updateRate(rarity, value) ==
    /\ editor.view = "editor"
    /\ LET parsed == parseFloat(value)
           num == IF parsed.nan THEN 0 ELSE parsed.v
           ps == editor.formData.probability_settings
           currentOther == IF rarity = "5" THEN ps.base_4star_rate ELSE ps.base_5star_rate
           capped == IF num + currentOther > Scale THEN Scale - currentOther ELSE num
       IN editor' = [editor EXCEPT !.formData =
                        RateEffect(IF rarity = "5"
                                   THEN [@ EXCEPT !.probability_settings.base_5star_rate = capped]
                                   ELSE [@ EXCEPT !.probability_settings.base_4star_rate = capped])]
    /\ EditorUnchanged

NextRates ==
    \/ handleCreateNewConfig
    \/ handleEditConfig
    \/ \E rarity \in {"5", "4"}, value \in RateInputs : updateRate(rarity, value)
    \/ handleSaveConfig
    \/ onCancel

SpecRates == InitEditor /\ [][NextRates]_vars

\* ------------------------------------------ the config editor: pity fields

\* calls of the pity handlers the model follows
MaxEdits == 4

\* intervals a soft_pity array holds at most
MaxIntervals == 2

\* what is typed into a pity field
PityValues == {70}

SoftPityOf(c, rarity) == c.probability_progression[rarity].soft_pity

WithSoftPity(c, rarity, soft) == [c EXCEPT !.probability_progression[rarity].soft_pity = soft]

\* the config the editor was opened on, and the object that holds its
\* probability_progression, see the soft_pity of the rarity change
SeenByConfig(e, rarity, soft) ==
    LET changed == WithSoftPity(e.editingConfig, rarity, soft) IN
    [e EXCEPT !.editingConfig = changed,
              !.defaults = IF e.from = "default" THEN WithSoftPity(@, rarity, soft) ELSE @,
              !.configs = IF e.from = "list" THEN (@ \ {e.editingConfig}) \cup {changed} ELSE @]

\* the soft_pity array formData holds for the rarity is changed in place
\* (push, or an assignment to an index)
ArrayChanged(e, rarity, soft) ==
    LET own == [e EXCEPT !.formData = WithSoftPity(@, rarity, soft), !.edits = @ + 1] IN
    IF e.array[rarity] THEN SeenByConfig(own, rarity, soft) ELSE own

\* progression[rarity].soft_pity = soft: the progression object formData
\* holds for the rarity gets another array
ArrayReplaced(e, rarity, soft) ==
    LET own == [e EXCEPT !.formData = WithSoftPity(@, rarity, soft), !.edits = @ + 1] IN
    IF e.tier[rarity] THEN SeenByConfig(own, rarity, soft)
    ELSE [own EXCEPT !.array[rarity] = FALSE]

\* progression = { ...formData.probability_progression };
\* progression[rarity].soft_pity.push({ start_pull: 74, end_pull: 89, increment: 0.06 })
addSoftPityInterval(rarity) ==
    /\ editor.view = "editor"
    /\ editor.edits < MaxEdits
    /\ Len(SoftPityOf(editor.formData, rarity)) < MaxIntervals
    /\ editor' = ArrayChanged(editor, rarity,
                      Append(SoftPityOf(editor.formData, rarity), SoftPityInterval(74, 89, 60)))
    /\ EditorUnchanged

\* progression[rarity].soft_pity = progression[rarity].soft_pity.filter((_, i) => i !== index)
removeSoftPityInterval(rarity, index) ==
    /\ editor.view = "editor"
    /\ editor.edits < MaxEdits
    /\ index \in 1..Len(SoftPityOf(editor.formData, rarity))
    /\ LET soft == SoftPityOf(editor.formData, rarity)
       IN editor' = ArrayReplaced(editor, rarity,
                        [i \in 1..(Len(soft) - 1) |-> IF i < index THEN soft[i] ELSE soft[i + 1]])
    /\ EditorUnchanged

\* progression[rarity].soft_pity[index] = { ...progression[rarity].soft_pity[index], [field]: value }
updateSoftPityField(rarity, index, field, value) ==
    /\ editor.view = "editor"
    /\ editor.edits < MaxEdits
    /\ index \in 1..Len(SoftPityOf(editor.formData, rarity))
    /\ LET soft == SoftPityOf(editor.formData, rarity)
       IN editor' = ArrayChanged(editor, rarity,
                        [soft EXCEPT ![index] =
                            IF field = "start_pull" THEN [@ EXCEPT !.start_pull = value]
                            ELSE [@ EXCEPT !.end_pull = value]])
    /\ EditorUnchanged

\* progression[rarity] = { ...progression[rarity], [field]: value }: formData
\* holds a progression object of its own from here on, with the same array
updatePityBaseField(rarity, field, value) ==
    /\ editor.view = "editor"
    /\ editor.edits < MaxEdits
    /\ field = "hard_pity_pull"
    /\ editor' = [editor EXCEPT
                      !.formData.probability_progression[rarity].hard_pity_pull = value,
                      !.tier[rarity] = FALSE,
                      !.edits = @ + 1]
    /\ EditorUnchanged

\* the config list the App has loaded when the session starts: one config
InitPityEditor ==
    /\ config = DEFAULT_CONFIG
    /\ state = InitialPityState
    /\ input = InitialPityState
    /\ last = NoDraw
    /\ prior5 = "none"
    /\ batch = NoBatch
    /\ sessions = NoSessions
    /\ editor = ConfigList({DefaultWithPools})
    /\ form = NoForm
    /\ app = NoApp

NextPityEditor ==
    \/ handleCreateNewConfig
    \/ handleEditConfig
    \/ \E rarity \in {FiveStar, FourStar} :
          \/ addSoftPityInterval(rarity)
          \/ \E index \in 1..MaxIntervals :
                \/ removeSoftPityInterval(rarity, index)
                \/ \E field \in {"start_pull", "end_pull"}, value \in PityValues :
                      updateSoftPityField(rarity, index, field, value)
          \/ \E value \in PityValues : updatePityBaseField(rarity, "hard_pity_pull", value)
    \/ onCancel

SpecPityEditor == InitPityEditor /\ [][NextPityEditor]_vars

\* ------------------------------------------------------- the banner form

\* this.allItems: the items loaded from the API (name and rarity; no name
\* is part of another item's name, type or affiliated_type)
allItems ==
    { [name |-> "A", rarity |-> 5], [name |-> "B", rarity |-> 5],
      [name |-> "C", rarity |-> 4], [name |-> "D", rarity |-> 3] }

\* what is typed into a search box: nothing, or a name
SearchTerms == {"", "A", "C"}

\* item.name.toLowerCase().includes(term), an empty term filters nothing
Matches(item, term) == term = "" \/ item.name = term

NamesOfRarity(rarity) == { i.name : i \in { x \in allItems : x.rarity = rarity } }

SelectedItems(f, rarity) ==
    IF rarity = 5 THEN f.selected5StarItems ELSE f.selected4StarItems

IncludedItems(f, rarity) ==
    IF rarity = 5 THEN f.included5StarItems
    ELSE IF rarity = 4 THEN f.included4StarItems
    ELSE f.included3StarItems

UpSearch(f, rarity) == IF rarity = 5 THEN f.up5StarSearch ELSE f.up4StarSearch

UpDropdown(f, rarity) == IF rarity = 5 THEN f.up5StarDropdown ELSE f.up4StarDropdown

WithSelected(f, rarity, items) ==
    IF rarity = 5 THEN [f EXCEPT !.selected5StarItems = items]
    ELSE [f EXCEPT !.selected4StarItems = items]

WithIncluded(f, rarity, items) ==
    IF rarity = 5 THEN [f EXCEPT !.included5StarItems = items]
    ELSE IF rarity = 4 THEN [f EXCEPT !.included4StarItems = items]
    ELSE [f EXCEPT !.included3StarItems = items]

\* the items of the rarity that are included, match the term and are not
\* selected; the 4-star sets are used for every rarity but 5
AvailableItems(f, rarity, searchTerm) ==
    { i.name : i \in { x \in allItems :
          /\ x.rarity = rarity
          /\ x.name \in (IF rarity = 5 THEN f.included5StarItems ELSE f.included4StarItems)
          /\ Matches(x, searchTerm)
          /\ x.name \notin (IF rarity = 5 THEN f.selected5StarItems ELSE f.selected4StarItems) } }

\* renderAvailableItemsDropdown: the dropdown of the rarity now holds these
\* items, each with its click listener, until it is rendered again
filterAvailableItems(f, rarity, searchTerm) ==
    IF rarity = 5 THEN [f EXCEPT !.up5StarDropdown = AvailableItems(f, 5, searchTerm)]
    ELSE [f EXCEPT !.up4StarDropdown = AvailableItems(f, 4, searchTerm)]

\* what a number field of the form holds: nothing, or the digits of n, or
\* of n and a half
Blank == [blank |-> TRUE, int |-> 0, half |-> FALSE]

Text(n, half) == [blank |-> FALSE, int |-> n, half |-> half]

\* parseInt(field.value): NaN for an empty field, else the digits before the point
parseInt(text) == IF text.blank THEN NaN ELSE Num(text.int)

\* parseInt(...) || 0
OrZero(x) == IF x.nan THEN 0 ELSE x.v

\* a comparison with NaN is false
LessThan(a, b) == ~a.nan /\ ~b.nan /\ a.v < b.v

GreaterEq(a, b) == ~a.nan /\ ~b.nan /\ a.v >= b.v

\* a .soft-pity-entry row: its start and end fields (the increment field
\* is read by no check)
SoftPityEntry(start, end) == [start |-> start, end |-> end]

\* the step posted no banner
NoBanner == [posted |-> FALSE, soft_pity |-> <<>>, hard_pity_pull |-> NaN]

\* the value attribute of #hardPityPull in the page, which form.reset() restores
HardPityDefaults == {Blank, Text(80, FALSE)}

\* what the user types into a start or end field, and into #hardPityPull
SoftPityTexts == {Blank, Text(72, FALSE)}

HardPityTexts == {Blank, Text(79, FALSE), Text(78, TRUE)}

\* rows the soft pity container holds at most
MaxSoftPityEntries == 3

\* the form as the constructor leaves it, not shown
ClosedForm ==
    [open |-> FALSE,
     selected5StarItems |-> {}, selected4StarItems |-> {},
     included5StarItems |-> {}, included4StarItems |-> {}, included3StarItems |-> {},
     up5StarSearch |-> "", up4StarSearch |-> "",
     up5StarDropdown |-> {}, up4StarDropdown |-> {},
     hardPityDefault |-> Blank, hardPityPull |-> Blank, softPity |-> <<>>,
     sent |-> NoBanner]    \* sent: the banner the step just taken posted

RECURSIVE MaxSoftPityEnd(_, _)
\* the largest parseInt(end) || 0 of the rows, at least maxSoftPityEnd
MaxSoftPityEnd(entries, maxSoftPityEnd) ==
    IF entries = <<>> THEN maxSoftPityEnd
    ELSE MaxSoftPityEnd(Tail(entries), Max(maxSoftPityEnd, OrZero(parseInt(Head(entries).end))))

\* hardPityPull.min = maxSoftPityEnd + 1; a hard pity value above 0 and
\* below the new minimum is replaced by the minimum
updateHardPityMinValue(f) ==
    LET min == MaxSoftPityEnd(f.softPity, 0) + 1
        currentHardPity == OrZero(parseInt(f.hardPityPull))
    IN IF currentHardPity > 0 /\ currentHardPity < min
       THEN [f EXCEPT !.hardPityPull = Text(min, FALSE)]
       ELSE f

\* a row is appended to the container, then the minimum is updated
addSoftPityEntry(f, start_pull, end_pull) ==
    updateHardPityMinValue([f EXCEPT !.softPity = Append(@, SoftPityEntry(start_pull, end_pull))])

RECURSIVE SoftPityLoop(_, _)
\* the loop over the rows: FALSE at the first row with start >= end, else
\* the largest end seen (a row whose end is NaN passes both comparisons)
SoftPityLoop(entries, maxSoftPityEnd) ==
    IF entries = <<>> THEN [ok |-> TRUE, maxSoftPityEnd |-> maxSoftPityEnd]
    ELSE LET start == parseInt(Head(entries).start)
             end == parseInt(Head(entries).end)
         IN IF GreaterEq(start, end) THEN [ok |-> FALSE, maxSoftPityEnd |-> maxSoftPityEnd]
            ELSE SoftPityLoop(Tail(entries),
                              IF LessThan(Num(maxSoftPityEnd), end) THEN end.v ELSE maxSoftPityEnd)

\* validateForm(): the name is not empty (named), the base rates are the
\* ones showForm set (0.008 and 0.06: not negative, sum with the 3-star
\* rate 1), every row has start < end, and hardPityPull <= maxSoftPityEnd
\* does not hold
validateForm(f, named) ==
    /\ named
    /\ SoftPityLoop(f.softPity, 0).ok
    /\ ~GreaterEq(Num(SoftPityLoop(f.softPity, 0).maxSoftPityEnd), parseInt(f.hardPityPull))

\* the banner saveBanner builds from the fields
BannerOf(f) ==
    [posted |-> TRUE,
     soft_pity |-> [i \in 1..Len(f.softPity) |->
                       [start_pull |-> parseInt(f.softPity[i].start),
                        end_pull |-> parseInt(f.softPity[i].end)]],
     hard_pity_pull |-> parseInt(f.hardPityPull)]

InitBanner ==
    /\ config = DEFAULT_CONFIG
    /\ state = InitialPityState
    /\ input = InitialPityState
    /\ last = NoDraw
    /\ prior5 = "none"
    /\ batch = NoBatch
    /\ sessions = NoSessions
    /\ editor = NoEditor
    /\ \E default \in HardPityDefaults :
          form = [ClosedForm EXCEPT !.hardPityDefault = default, !.hardPityPull = default]
    /\ app = NoApp

FormUnchanged == UNCHANGED <<config, state, input, last, prior5, batch, sessions, editor, app>>

\* showForm() for a new banner: the form is reset, every set cleared, the
\* dropdowns rendered again, the container emptied and the three default
\* rows added
showForm ==
    /\ ~form.open
    /\ LET reset == [ClosedForm EXCEPT !.open = TRUE,
                                       !.hardPityDefault = form.hardPityDefault,
                                       !.hardPityPull = form.hardPityDefault]
           shown == filterAvailableItems(filterAvailableItems(reset, 5, ""), 4, "")
       IN form' = addSoftPityEntry(
                      addSoftPityEntry(
                          addSoftPityEntry(shown, Text(66, FALSE), Text(70, FALSE)),
                          Text(71, FALSE), Text(75, FALSE)),
                      Text(76, FALSE), Text(78, FALSE))
    /\ FormUnchanged

hideForm ==
    /\ form.open
    /\ form' = [form EXCEPT !.open = FALSE, !.sent = NoBanner]
    /\ FormUnchanged

\* typing into the UP search box of the rarity
upSearchInput(rarity, term) ==
    /\ form.open
    /\ LET typed == IF rarity = 5 THEN [form EXCEPT !.up5StarSearch = term]
                    ELSE [form EXCEPT !.up4StarSearch = term]
       IN form' = filterAvailableItems(typed, rarity, term)
    /\ FormUnchanged

\* focus on the UP search box, or typing into the included search box of
\* the rarity: the UP dropdown is rendered again
upSearchFocus(rarity) ==
    /\ form.open
    /\ form' = filterAvailableItems(form, rarity, UpSearch(form, rarity))
    /\ FormUnchanged

\* a click on an item of the UP dropdown of the rarity
selectItem(itemName, rarity) ==
    /\ form.open
    /\ itemName \in UpDropdown(form, rarity)
    /\ form' = IF itemName \notin SelectedItems(form, rarity)
               THEN filterAvailableItems(
                        WithSelected(form, rarity, SelectedItems(form, rarity) \cup {itemName}),
                        rarity, UpSearch(form, rarity))
               ELSE form
    /\ FormUnchanged

\* a click on the remove button of a selected item's badge
removeSelectedItem(itemName, rarity) ==
    /\ form.open
    /\ itemName \in SelectedItems(form, rarity)
    /\ form' = filterAvailableItems(
                   WithSelected(form, rarity, SelectedItems(form, rarity) \ {itemName}),
                   rarity, UpSearch(form, rarity))
    /\ FormUnchanged

\* a click on an item of the included dropdown of the rarity, which holds
\* the items of the rarity that are not included (and match its search box)
selectIncludedItem(itemName, rarity) ==
    /\ form.open
    /\ itemName \in NamesOfRarity(rarity) \ IncludedItems(form, rarity)
    /\ form' = WithIncluded(form, rarity, IncludedItems(form, rarity) \cup {itemName})
    /\ FormUnchanged

\* a click on the remove button of an included item's badge: the item
\* leaves the included set; when it is a selected UP item it leaves that
\* set too and only then the UP dropdown is rendered again
removeIncludedItem(itemName, rarity) ==
    /\ form.open
    /\ itemName \in IncludedItems(form, rarity)
    /\ LET removed == WithIncluded(form, rarity, IncludedItems(form, rarity) \ {itemName})
       IN form' = IF rarity \in {5, 4} /\ itemName \in SelectedItems(removed, rarity)
                  THEN filterAvailableItems(
                           WithSelected(removed, rarity, SelectedItems(removed, rarity) \ {itemName}),
                           rarity, UpSearch(removed, rarity))
                  ELSE removed
    /\ FormUnchanged

selectAllIncludedItems(rarity) ==
    /\ form.open
    /\ LET all == WithIncluded(form, rarity, IncludedItems(form, rarity) \cup NamesOfRarity(rarity))
       IN form' = IF rarity \in {5, 4}
                  THEN filterAvailableItems(all, rarity, UpSearch(all, rarity))
                  ELSE all
    /\ FormUnchanged

clearAllIncludedItems(rarity) ==
    /\ form.open
    /\ LET removedItems == IncludedItems(form, rarity)
           cleared == WithIncluded(form, rarity, {})
       IN form' = IF rarity \in {5, 4}
                  THEN filterAvailableItems(
                           WithSelected(cleared, rarity, SelectedItems(cleared, rarity) \ removedItems),
                           rarity, UpSearch(cleared, rarity))
                  ELSE cleared
    /\ FormUnchanged

\* runs after a click into an included dropdown and when one is hidden:
\* selected items that are not included are dropped, both UP dropdowns
\* rendered again
validateUpItems ==
    /\ form.open
    /\ LET valid == [form EXCEPT
                        !.selected5StarItems = @ \cap form.included5StarItems,
                        !.selected4StarItems = @ \cap form.included4StarItems]
       IN form' = filterAvailableItems(
                      filterAvailableItems(valid, 5, valid.up5StarSearch), 4, valid.up4StarSearch)
    /\ FormUnchanged

NextBanner ==
    \/ showForm
    \/ hideForm
    \/ \E rarity \in {5, 4} :
          \/ \E term \in SearchTerms : upSearchInput(rarity, term)
          \/ upSearchFocus(rarity)
          \/ \E itemName \in NamesOfRarity(rarity) : selectItem(itemName, rarity)
          \/ \E itemName \in NamesOfRarity(rarity) : removeSelectedItem(itemName, rarity)
    \/ \E rarity \in {5, 4, 3} :
          \/ \E itemName \in NamesOfRarity(rarity) : selectIncludedItem(itemName, rarity)
          \/ \E itemName \in NamesOfRarity(rarity) : removeIncludedItem(itemName, rarity)
          \/ selectAllIncludedItems(rarity)
          \/ clearAllIncludedItems(rarity)
    \/ validateUpItems

SpecBanner == InitBanner /\ [][NextBanner]_vars

\* ------------------------------------------- the banner form: pity fields

\* the add button: a row with empty fields
addSoftPityClick ==
    /\ form.open
    /\ Len(form.softPity) < MaxSoftPityEntries
    /\ form' = addSoftPityEntry([form EXCEPT !.sent = NoBanner], Blank, Blank)
    /\ FormUnchanged

\* the remove button of row i
removeSoftPityClick(i) ==
    /\ form.open
    /\ i \in 1..Len(form.softPity)
    /\ form' = updateHardPityMinValue(
                   [form EXCEPT !.sent = NoBanner,
                                !.softPity =
                                    [j \in 1..(Len(form.softPity) - 1) |->
                                        IF j < i THEN form.softPity[j] ELSE form.softPity[j + 1]]])
    /\ FormUnchanged

\* typing into the start or the end field of row i
softPityInput(i, field, text) ==
    /\ form.open
    /\ i \in 1..Len(form.softPity)
    /\ form' = updateHardPityMinValue(
                   IF field = "start"
                   THEN [form EXCEPT !.sent = NoBanner, !.softPity[i].start = text]
                   ELSE [form EXCEPT !.sent = NoBanner, !.softPity[i].end = text])
    /\ FormUnchanged

\* typing into #hardPityPull
hardPityInput(text) ==
    /\ form.open
    /\ form' = [form EXCEPT !.sent = NoBanner, !.hardPityPull = text]
    /\ FormUnchanged

\* saveBanner(): nothing happens when validateForm() fails; else the banner
\* is posted, and when the backend answers success the form is hidden
saveBanner ==
    /\ form.open
    /\ \E named \in BOOLEAN, success \in BOOLEAN :
          form' = IF ~validateForm(form, named) THEN [form EXCEPT !.sent = NoBanner]
                  ELSE [form EXCEPT !.sent = BannerOf(form),
                                    !.open = IF success THEN FALSE ELSE @]
    /\ FormUnchanged

NextPity ==
    \/ showForm
    \/ hideForm
    \/ addSoftPityClick
    \/ \E i \in 1..MaxSoftPityEntries :
          \/ removeSoftPityClick(i)
          \/ \E field \in {"start", "end"}, text \in SoftPityTexts : softPityInput(i, field, text)
    \/ \E text \in HardPityTexts : hardPityInput(text)
    \/ saveBanner

SpecPity == InitBanner /\ [][NextPity]_vars

\* ------------------------------------------------- the App: config files
\* The backend keeps the config files of a directory; the App holds the list
\* fetchConfigs returned, the config being edited and the index of the config
\* whose delete button was clicked.  A file's content is the config it holds,
\* told apart by its name.

Dirs == {"configs", "backup"}

\* the file names in the order of the backend's listing
Filenames == <<"new_pool.json", "pool_a.json", "pool_b.json">>

Names == {"New Pool", "Pool A", "pool a", "Pool B"}

NoFile == "absent"

\* name.toLowerCase().replace(/\s+/g, '_') + '.json'
FilenameOf(name) ==
    CASE name = "New Pool" -> "new_pool.json"
      [] name = "Pool A"   -> "pool_a.json"
      [] name = "pool a"   -> "pool_a.json"
      [] name = "Pool B"   -> "pool_b.json"

\* DELETE /api/configs/{filename} and its reply's success
DeleteFile(files, filename, success) ==
    IF success THEN [files EXCEPT ![filename] = NoFile] ELSE files

\* POST /api/configs/{filename} with the content, and its reply's success
PostFile(files, filename, content, success) ==
    IF success THEN [files EXCEPT ![filename] = content] ELSE files

\* GET /api/configs/list: one entry per file, filename and content; [] when
\* the request fails
fetchConfigs(files, success) ==
    LET present == SelectSeq(Filenames, LAMBDA f : files[f] # NoFile)
    IN  IF success
        THEN [i \in 1..Len(present) |-> [filename |-> present[i], name |-> files[present[i]]]]
        ELSE <<>>

\* saveConfig(config) against the files of the directory: the files
\* afterwards and the value returned
saveConfig(files, c, deleteSuccess, postSuccess) ==
    LET newFilename == FilenameOf(c.name)
        renamed     == c.filename # "" /\ c.filename # newFilename
    IN  IF renamed /\ ~deleteSuccess
        THEN [files |-> files, success |-> FALSE]
        ELSE [files   |-> PostFile(IF renamed THEN DeleteFile(files, c.filename, TRUE)
                                              ELSE files,
                                   newFilename, c.name, postSuccess),
              success |-> postSuccess]

NoConfig == [filename |-> "", name |-> ""]

NoStep == [kind |-> "none"]

NoClick == [filename |-> ""]

\* the App with the list of the directory loaded.  dir: the directory the
\* backend serves;
\* configToDeleteIdx: 0 for null, else the position in configs counted from 1;
\* fetching: the fetchConfigs replies on their way; clicked: the config whose
\* delete button was clicked; done: what the step just taken did
AppOf(dir, files) ==
    [view |-> "configs", dir |-> dir, files |-> files,
     configs |-> fetchConfigs(files[dir], TRUE), editingConfig |-> NoConfig,
     configToDeleteIdx |-> 0, fetching |-> <<>>,
     clicked |-> NoClick, done |-> NoStep]

FilesOf(a, b) ==
    [f \in {Filenames[i] : i \in 1..Len(Filenames)} |->
        CASE f = "pool_a.json" -> a [] f = "pool_b.json" -> b [] OTHER -> NoFile]

AppUnchanged ==
    UNCHANGED <<config, state, input, last, prior5, batch, sessions, editor, form>>

InitApp(apps) ==
    /\ config = DEFAULT_CONFIG
    /\ state = InitialPityState
    /\ input = InitialPityState
    /\ last = NoDraw
    /\ prior5 = "none"
    /\ batch = NoBatch
    /\ sessions = NoSessions
    /\ editor = NoEditor
    /\ form = NoForm
    /\ app \in apps

\* ------------------------------------------------ the App: saving a config

\* handleCreateNewConfig: a config without filename
onCreate ==
    /\ app.view = "configs"
    /\ app' = [app EXCEPT !.view = "editor",
                          !.editingConfig = [filename |-> "", name |-> "New Pool"],
                          !.done = NoStep]
    /\ AppUnchanged

\* handleEditConfig(configs[i])
onEdit(i) ==
    /\ app.view = "configs"
    /\ i \in 1..Len(app.configs)
    /\ app' = [app EXCEPT !.view = "editor", !.editingConfig = app.configs[i],
                          !.done = NoStep]
    /\ AppUnchanged

\* the name input of the ConfigEditor
nameInput(name) ==
    /\ app.view = "editor"
    /\ app.editingConfig.name # name
    /\ app' = [app EXCEPT !.editingConfig.name = name, !.done = NoStep]
    /\ AppUnchanged

\* the editor's save button: handleSaveConfig(formData)
onSave ==
    /\ app.view = "editor"
    /\ \E deleteSuccess, postSuccess, listSuccess \in BOOLEAN :
          LET saved == saveConfig(app.files[app.dir], app.editingConfig,
                                  deleteSuccess, postSuccess)
              files == [app.files EXCEPT ![app.dir] = saved.files]
              step  == [kind |-> "save", success |-> saved.success, before |-> app.files]
          IN  app' = IF saved.success
                     THEN [app EXCEPT !.files = files, !.view = "configs",
                                      !.configs = fetchConfigs(saved.files, listSuccess),
                                      !.done = step]
                     ELSE [app EXCEPT !.files = files, !.done = step]
    /\ AppUnchanged

InitSave ==
    InitApp({AppOf("configs", [d \in Dirs |-> IF d = "configs" THEN FilesOf("Pool A", b)
                                                               ELSE FilesOf(NoFile, NoFile)]) :
                b \in {NoFile, "Pool B"}})

NextSave ==
    \/ onCreate
    \/ \E i \in 1..Len(Filenames) : onEdit(i)
    \/ \E name \in Names : nameInput(name)
    \/ onSave

SpecSave == InitSave /\ [][NextSave]_vars

\* ---------------------------------------------- the App: deleting a config

\* fetchConfigs requests that may be on their way at once
MaxFetches == 2

\* a fetchConfigs request sent now: the reply it will bring
Listing(a, listSuccess) ==
    fetchConfigs(a.files[a.dir], listSuccess)

\* the delete button of card idx: setConfigToDeleteIdx(originalIndex)
onDelete(idx) ==
    /\ app.view = "configs"
    /\ app.configToDeleteIdx = 0
    /\ idx \in 1..Len(app.configs)
    /\ app' = [app EXCEPT !.configToDeleteIdx = idx,
                          !.clicked = [filename |-> app.configs[idx].filename],
                          !.done = NoStep]
    /\ AppUnchanged

\* the modal's other button: setConfigToDeleteIdx(null)
goBack ==
    /\ app.configToDeleteIdx # 0
    /\ app' = [app EXCEPT !.configToDeleteIdx = 0, !.done = NoStep]
    /\ AppUnchanged

\* Header.handleDirChange(newDir): the backend switches directory and
\* onConfigDirChange sends fetchConfigs
handleDirChange(newDir) ==
    /\ app.view = "configs"
    /\ app.configToDeleteIdx = 0
    /\ newDir # app.dir
    /\ Len(app.fetching) < MaxFetches
    /\ \E listSuccess \in BOOLEAN :
          LET moved == [app EXCEPT !.dir = newDir]
          IN  app' = [moved EXCEPT !.fetching = Append(@, Listing(moved, listSuccess)),
                                   !.done = NoStep]
    /\ AppUnchanged

\* a change of language or of the selected group: the initData effect runs
\* again and sends fetchConfigs
setLanguage ==
    /\ app.view = "configs"
    /\ app.configToDeleteIdx = 0
    /\ Len(app.fetching) < MaxFetches
    /\ \E listSuccess \in BOOLEAN :
          app' = [app EXCEPT !.fetching = Append(@, Listing(app, listSuccess)),
                             !.done = NoStep]
    /\ AppUnchanged

\* the reply of the k-th request on its way arrives: setConfigs(fetchedConfigs)
setConfigs(k) ==
    /\ app.view = "configs"
    /\ k \in 1..Len(app.fetching)
    /\ app' = [app EXCEPT !.configs = app.fetching[k],
                          !.fetching = SubSeq(@, 1, k - 1) \o SubSeq(@, k + 1, Len(@)),
                          !.done = NoStep]
    /\ AppUnchanged

\* the modal's confirm button.  configs[configToDeleteIdx] is read when the
\* button is pressed; past the end of the list it is undefined and
\* config.filename throws
executeDeleteConfig ==
    /\ app.view = "configs"
    /\ app.configToDeleteIdx # 0
    /\ IF app.configToDeleteIdx > Len(app.configs)
       THEN app' = [app EXCEPT !.done = [kind |-> "delete", filename |-> ""]]
       ELSE \E success, listSuccess \in BOOLEAN :
              LET c       == app.configs[app.configToDeleteIdx]
                  files   == app.files[app.dir]
                  deleted == success /\ files[c.filename] # NoFile
                  after   == [app EXCEPT !.files[app.dir] = DeleteFile(files, c.filename, deleted)]
              IN  app' = IF deleted
                         THEN [after EXCEPT
                                 !.configs = fetchConfigs(after.files[after.dir], listSuccess),
                                 !.configToDeleteIdx = 0,
                                 !.done = [kind |-> "delete", filename |-> c.filename]]
                         ELSE [app EXCEPT
                                 !.configToDeleteIdx = 0,
                                 !.done = [kind |-> "delete", filename |-> ""]]
    /\ AppUnchanged

InitDelete ==
    InitApp({AppOf("configs", [d \in Dirs |-> IF d = "configs" THEN FilesOf("Pool A", "Pool B")
                                                               ELSE FilesOf(a, "Pool B")]) :
                a \in {NoFile, "pool a"}})

NextDelete ==
    \/ \E idx \in 1..Len(Filenames) : onDelete(idx)
    \/ goBack
    \/ \E newDir \in Dirs : handleDirChange(newDir)
    \/ setLanguage
    \/ \E k \in 1..MaxFetches : setConfigs(k)
    \/ executeDeleteConfig

SpecDelete == InitDelete /\ [][NextDelete]_vars

\* ------------------------------------------------------ the App: items
\* The backend keeps one item table per config group; a row is told apart by
\* its table and its id, and carries the item's name.  The App holds the items the latest
\* fetchItems reply brought and the selected config group.

Groups == {"default", "limited", "standard"}

ItemNames == {"Jinhsi", "Sanhua"}

Row(id, name, group) == [id |-> id, name |-> name, config_group |-> group]

\* GET /api/db/items?config_group=configGroup: the rows of that table, each
\* given the requested group as its config_group; [] when the request fails
fetchItems(db, configGroup, success) ==
    IF success
    THEN {Row(r.id, r.name, configGroup) : r \in {x \in db : x.config_group = configGroup}}
    ELSE {}

\* the table shows every item the App holds
UnfilteredItems(items, selectedConfigGroup) == items

\* ItemManager: items.filter(item => item.config_group === selectedConfigGroup)
filteredItems(items, selectedConfigGroup) ==
    {item \in items : item.config_group = selectedConfigGroup}

NoImport == [pc |-> "idle"]

\* the App with the items of the default group loaded.  db: the rows of the
\* backend's tables; fetching: the fetchItems replies on their way;
\* import: the CSV import in progress; done: what the step just taken did
ItemsOf(db) ==
    [view |-> "items", db |-> db, items |-> fetchItems(db, "default", TRUE),
     selectedConfigGroup |-> "default", fetching |-> <<>>,
     import |-> NoImport, done |-> NoStep]

\* the group selector: setSelectedConfigGroup(group), and the initData
\* effect sends fetchItems(group)
onConfigGroupChange(group) ==
    /\ app.view = "items"
    /\ group # app.selectedConfigGroup
    /\ Len(app.fetching) < MaxFetches
    /\ \E success \in BOOLEAN :
          app' = [app EXCEPT !.selectedConfigGroup = group,
                             !.fetching = Append(@, fetchItems(app.db, group, success)),
                             !.done = NoStep]
    /\ AppUnchanged

\* a change of language: the initData effect sends fetchItems(selectedConfigGroup)
initData ==
    /\ app.view = "items"
    /\ Len(app.fetching) < MaxFetches
    /\ \E success \in BOOLEAN :
          app' = [app EXCEPT !.fetching = Append(@, fetchItems(app.db, app.selectedConfigGroup,
                                                                success)),
                             !.done = NoStep]
    /\ AppUnchanged

\* the reply of the k-th request on its way arrives: setItems(fetchedItems)
setItems(k) ==
    /\ app.view = "items"
    /\ k \in 1..Len(app.fetching)
    /\ app' = [app EXCEPT !.items = app.fetching[k],
                          !.fetching = SubSeq(@, 1, k - 1) \o SubSeq(@, k + 1, Len(@)),
                          !.done = NoStep]
    /\ AppUnchanged

InitItems ==
    InitApp({ItemsOf({Row(1, "Jinhsi", "default"), Row(2, "Sanhua", "default"),
                      Row(1, "Sanhua", "limited"), Row(1, "Jinhsi", "standard")})})

NextItems ==
    \/ \E group \in Groups : onConfigGroupChange(group)
    \/ initData
    \/ \E k \in 1..MaxFetches : setItems(k)

SpecItems == InitItems /\ [][NextItems]_vars

\* ------------------------------------------------- the App: CSV import

\* data lines of a CSV file, and rows the tables hold together
MaxRows == 2
MaxDbRows == 3

BlankLine == ""

\* the lines of a CSV file after its header line; no line at all when the
\* text holds no line break
CsvFiles ==
    UNION {[1..n -> ItemNames \cup {BlankLine}] : n \in 0..MaxRows}

\* lines.slice(1).filter(line => line.trim()), each with config_group:
\* selectedConfigGroup
ItemsToAdd(lines, selectedConfigGroup) ==
    LET rows == SelectSeq(lines, LAMBDA line : line # BlankLine)
    IN  [i \in 1..Len(rows) |-> [name |-> rows[i], config_group |-> selectedConfigGroup]]

TableOf(db, group) == {r \in db : r.config_group = group}

LastId(db, group) ==
    IF TableOf(db, group) = {} THEN 0
    ELSE CHOOSE m \in {r.id : r \in TableOf(db, group)} :
            \A r \in TableOf(db, group) : r.id <= m

\* an import that adds to the rows the table holds
ClearNone(db, group, success) == db

\* DELETE /api/db/items?config_group=group&clear_all=true
ClearAll(db, group, success) == IF success THEN db \ TableOf(db, group) ELSE db

\* POST /api/db/items with a batch: every item becomes a row of the table of
\* its config_group
addItems(db, items, success) ==
    IF success
    THEN db \cup {Row(LastId(db, items[i].config_group) + i, items[i].name,
                      items[i].config_group) : i \in 1..Len(items)}
    ELSE db

\* the file input: handleImportCSV starts reading the chosen file; the onload
\* handler keeps the selectedConfigGroup of this render
handleImportCSV(lines) ==
    /\ app.view = "items"
    /\ app.import.pc = "idle"
    /\ Cardinality(app.db) + Len(lines) <= MaxDbRows
    /\ app' = [app EXCEPT !.import = [pc |-> "read", lines |-> lines,
                                      selectedConfigGroup |-> app.selectedConfigGroup],
                          !.done = NoStep]
    /\ AppUnchanged

\* reader.onload up to the first await: a text of one line is dropped, else
\* the items are prepared, the progress modal opens and the DELETE is sent
onload ==
    /\ app.view = "items"
    /\ app.import.pc = "read"
    /\ app' = IF Len(app.import.lines) = 0
              THEN [app EXCEPT !.import = NoImport, !.done = NoStep]
              ELSE [app EXCEPT
                      !.import = [pc |-> "clear",
                                  selectedConfigGroup |-> app.import.selectedConfigGroup,
                                  itemsToAdd |-> ItemsToAdd(app.import.lines,
                                                            app.import.selectedConfigGroup),
                                  before |-> app.db, requests |-> <<"DELETE">>],
                      !.done = NoStep]
    /\ AppUnchanged

\* the DELETE is answered (its reply is not read), or the fetch throws and
\* the import ends
clearAll ==
    /\ app.view = "items"
    /\ app.import.pc = "clear"
    /\ \E reply \in {"success", "failure", "error"} :
          LET db == ClearAll(app.db, app.import.selectedConfigGroup, reply = "success")
          IN  app' = IF reply = "error"
                     THEN [app EXCEPT !.import = NoImport, !.done = NoStep]
                     ELSE [app EXCEPT !.db = db,
                                      !.import = [app.import EXCEPT
                                                    !.pc = "add",
                                                    !.requests = Append(@, "POST")] @@
                                                 [cleared |-> reply = "success"],
                                      !.done = NoStep]
    /\ AppUnchanged

\* onAddItems(itemsToAdd): handleAddItems of the same render posts the batch
\* and on success fetches the items of its selectedConfigGroup; the progress
\* modal closes
handleAddItems ==
    /\ app.view = "items"
    /\ app.import.pc = "add"
    /\ \E success, listSuccess \in BOOLEAN :
          LET db   == addItems(app.db, app.import.itemsToAdd, success)
              step == [kind |-> "import", cleared |-> app.import.cleared, added |-> success,
                       selectedConfigGroup |-> app.import.selectedConfigGroup,
                       itemsToAdd |-> app.import.itemsToAdd,
                       before |-> app.import.before, requests |-> app.import.requests]
          IN  app' = [app EXCEPT
                        !.db = db,
                        !.items = IF success
                                  THEN fetchItems(db, app.import.selectedConfigGroup, listSuccess)
                                  ELSE @,
                        !.import = NoImport,
                        !.done = step]
    /\ AppUnchanged

\* the group selector while the progress modal does not cover it:
\* setSelectedConfigGroup(group), and the items the initData effect fetches
selectGroup(group) ==
    /\ app.view = "items"
    /\ app.import.pc \in {"idle", "read"}
    /\ group # app.selectedConfigGroup
    /\ \E success \in BOOLEAN :
          app' = [app EXCEPT !.selectedConfigGroup = group,
                             !.items = fetchItems(app.db, group, success),
                             !.done = NoStep]
    /\ AppUnchanged

InitImport ==
    InitApp({ItemsOf({Row(1, "Jinhsi", "default"), Row(1, "Sanhua", "limited")})})

NextImport ==
    \/ \E lines \in CsvFiles : handleImportCSV(lines)
    \/ onload
    \/ clearAll
    \/ handleAddItems
    \/ \E group \in Groups : selectGroup(group)

SpecImport == InitImport /\ [][NextImport]_vars

\* ------------------------------------------------------------- properties

\* the most recent draw returned a result of rarity t
Returned(t) == last.kind = "ok" /\ last.result.rarity = t

HardPityPull(t) == config.probability_progression[t].hard_pity_pull

HardPityRate(t) == config.probability_progression[t].hard_pity_rate

\* PityState s is at 5-star hard pity of a config whose 5-star hard_pity_rate is 1
AtHardPity5(s) ==
    /\ Validate(config)
    /\ HardPityRate(FiveStar) = Scale
    /\ s.pulls_since_5star + 1 >= HardPityPull(FiveStar)

C2_NoTwoNonUpInARow ==
    (Returned(FiveStar) /\ prior5 = "nonup") => last.result.is_rate_up

C2_Witness ==
    /\ Returned(FiveStar)
    /\ prior5 = "nonup"
    /\ last.result.is_rate_up
    /\ input.pulls_since_5star > 0

C4_Pity5Transition ==
    last.kind = "ok" =>
        /\ (state.pulls_since_5star = 0) <=> (last.result.rarity = FiveStar)
        /\ last.result.rarity \in {FourStar, ThreeStar} =>
              state.pulls_since_5star = input.pulls_since_5star + 1

C4_Witness ==
    /\ Returned(FourStar)
    /\ input.pulls_since_5star > 0
    /\ state.pulls_since_5star = input.pulls_since_5star + 1

\* C5: a 4-star result resets pulls_since_4star to 0; a 3-star result makes
\* it the input's + 1.
C5_Pity4Transition ==
    /\ Returned(FourStar) => state.pulls_since_4star = 0
    /\ Returned(ThreeStar) => state.pulls_since_4star = input.pulls_since_4star + 1

C5_Witness ==
    /\ Returned(FourStar)
    /\ input.pulls_since_4star > 0
    /\ state.pulls_since_4star = 0

GuaranteedFlag(s, t) ==
    IF t = FiveStar THEN s.guaranteed_5star_up ELSE s.guaranteed_4star_up

\* C6: for tier 5-star and 4-star, when the input's guaranteed flag of the
\* tier is set and the draw returns a result of that tier, the result is UP,
\* its item is one of rate_up_item_ids of the tier, and the returned flag is
\* cleared.
C6_ForcedUp ==
    \A t \in {FiveStar, FourStar} :
        (GuaranteedFlag(input, t) /\ Returned(t)) =>
            /\ last.result.is_rate_up
            /\ last.result.item_id \in config.rate_up_item_ids[t]
            /\ ~GuaranteedFlag(state, t)

\* C6 witness: the flag forces a UP 4-star result although the UP roll, the
\* largest random value against an up_4star_rate of 0.5, fails
C6_Witness ==
    /\ config.probability_settings.up_4star_rate = Scale \div 2
    /\ last.up_roll >= config.probability_settings.up_4star_rate
    /\ input.guaranteed_4star_up
    /\ Returned(FourStar)
    /\ last.result.is_rate_up

\* C7: after a 5-star (4-star) result the returned guaranteed flag of that
\* tier is the negation of the result's is_rate_up.
C7_FlagAfterHit ==
    \A t \in {FiveStar, FourStar} :
        Returned(t) => (GuaranteedFlag(state, t) = ~last.result.is_rate_up)

C7_Witness ==
    /\ Returned(FourStar)
    /\ ~last.result.is_rate_up
    /\ ~input.guaranteed_4star_up
    /\ state.guaranteed_4star_up

RECURSIVE IncrementsUpTo(_, _, _)
\* the increments of the first n intervals of soft whose start_pull <= k, summed
IncrementsUpTo(soft, k, n) ==
    IF n = 0 THEN 0
    ELSE IncrementsUpTo(soft, k, n - 1)
         + (IF soft[n].start_pull <= k THEN soft[n].increment ELSE 0)

\* base_5star_rate plus the increments of all intervals with start_pull <= k
BasePlusIncrements5(k) ==
    config.probability_settings.base_5star_rate
    + IncrementsUpTo(config.probability_progression[FiveStar].soft_pity, k,
                     Len(config.probability_progression[FiveStar].soft_pity))

\* the pulls before 5-star hard pity
BeforeHardPity5 == 1..(HardPityPull(FiveStar) - 1)

\* the most recent draw decided 5-star exactly when its random value was below rate
FiveStarBelow(rate) ==
    (last.kind = "ok" /\ input.pulls_since_5star + 1 \in BeforeHardPity5) =>
        ((last.result.rarity = FiveStar) <=> (last.local_random < rate))

\* C8 as stated: for 1 <= k <= hard_pity_pull - 1 the effective 5-star rate
\* used at pull k is base_5star_rate plus the increments of all soft-pity
\* intervals with start_pull <= k, and it is non-decreasing in k.
C8_RateIsBasePlusIncrements ==
    Validate(config) =>
        /\ \A k \in BeforeHardPity5 :
              /\ caculate_rate_5star(config, k) = BasePlusIncrements5(k)
              /\ k > 1 => caculate_rate_5star(config, k - 1) <= caculate_rate_5star(config, k)
        /\ FiveStarBelow(BasePlusIncrements5(input.pulls_since_5star + 1))

\* C8 amended: that rate is the smaller of 1 and base_5star_rate plus the
\* increments of all soft-pity intervals with start_pull <= k (a sum above 1
\* is clamped to 1), and it is non-decreasing in k.
C8_RateIsClampedSum ==
    Validate(config) =>
        /\ \A k \in BeforeHardPity5 :
              /\ caculate_rate_5star(config, k) = Min(Scale, BasePlusIncrements5(k))
              /\ k > 1 => caculate_rate_5star(config, k - 1) <= caculate_rate_5star(config, k)
        /\ FiveStarBelow(Min(Scale, BasePlusIncrements5(input.pulls_since_5star + 1)))

\* C8 witness: a pull before hard pity whose sum is above 1, a 5-star result
\* for the largest random value
C8_Witness ==
    /\ Returned(FiveStar)
    /\ input.pulls_since_5star + 1 \in BeforeHardPity5
    /\ BasePlusIncrements5(input.pulls_since_5star + 1) > Scale
    /\ last.local_random = Scale - 1

PoolsUsable(c) ==
    /\ \A t \in {FiveStar, FourStar} :
          c.rate_up_item_ids[t] # {} /\ c.included_item_ids[t] \ c.rate_up_item_ids[t] # {}
    /\ c.included_item_ids[ThreeStar] # {}

BatchRandoms(c, s) ==
    UNION { [1..n -> RandomValues(c, s)] : n \in 1..MaxBatch }

AtHardPity4(s) ==
    /\ Validate(config)
    /\ HardPityRate(FourStar) = Scale
    /\ s.pulls_since_4star + 1 >= HardPityPull(FourStar)

\* the 5-star check of the most recent draw failed
FiveStarCheckFailed ==
    /\ last.kind # "none"
    /\ last.local_random >= caculate_rate_5star(config, input.pulls_since_5star + 1)

C15_ResultWellFormed ==
    last.kind = "ok" =>
        /\ last.result.rarity \in {FiveStar, FourStar, ThreeStar}
        /\ last.result.item_id \in config.included_item_ids[last.result.rarity]
        /\ last.result.rarity \in {FiveStar, FourStar} =>
              (last.result.is_rate_up <=>
                  last.result.item_id \in config.rate_up_item_ids[last.result.rarity])
        /\ last.result.rarity = ThreeStar => ~last.result.is_rate_up

\* C15 witness: a non-UP 4-star result of a tier that has UP items too
C15_Witness ==
    /\ Returned(FourStar)
    /\ ~last.result.is_rate_up
    /\ config.rate_up_item_ids[FourStar] # {}
    /\ last.result.item_id \in config.included_item_ids[FourStar] \ config.rate_up_item_ids[FourStar]

\* C16: the guaranteed flags of the two tiers are independent: a 5-star
\* result leaves guaranteed_4star_up as it was, a 4-star result leaves
\* guaranteed_5star_up as it was, a 3-star result leaves both as they were.
C16_FlagsIndependent ==
    /\ Returned(FiveStar) => state.guaranteed_4star_up = input.guaranteed_4star_up
    /\ Returned(FourStar) => state.guaranteed_5star_up = input.guaranteed_5star_up
    /\ Returned(ThreeStar) =>
          /\ state.guaranteed_5star_up = input.guaranteed_5star_up
          /\ state.guaranteed_4star_up = input.guaranteed_4star_up

\* C16 witness: a non-UP 5-star result sets the 5-star flag and leaves the
\* set 4-star flag set
C16_Witness ==
    /\ Returned(FiveStar)
    /\ ~last.result.is_rate_up
    /\ input.guaranteed_4star_up
    /\ state.guaranteed_4star_up
    /\ state.guaranteed_5star_up

NegativeCounter(s) == s.pulls_since_5star < 0 \/ s.pulls_since_4star < 0

C18_EmptyPoolNeverSaved ==
    /\ (editor.view = "editor" /\ ~IncludedPoolsOk(editor.formData)) =>
          /\ ~Validate(editor.formData)
          /\ \A rnd \in RandomValues(editor.formData, InitialPityState) :
                Draw(editor.formData, InitialPityState, rnd).kind = "ConfigValidationError"
    /\ editor.view # "off" => \A c \in editor.configs : IncludedPoolsOk(c)

\* C19: in the editor opened on a config with rate_up_item_ids within
\* included_item_ids for 5-star and 4-star, after any handleToggleItem,
\* handleSelectAll and handleDeselectAll calls the formData the save button
\* hands to onSave has rate_up_item_ids within included_item_ids.
C19_EditorKeepsUpSubset ==
    (editor.view = "editor" /\ UpSubsetOk(editor.editingConfig)) => UpSubsetOk(editor.formData)

\* C20: in the banner form, started as a new-banner form, in every state
\* reached by selectItem on an item the UP dropdown offers,
\* removeSelectedItem, selectIncludedItem, removeIncludedItem,
\* selectAllIncludedItems, clearAllIncludedItems and validateUpItems,
\* selected5StarItems is within included5StarItems and selected4StarItems
\* within included4StarItems.
C20_FormKeepsUpSubset ==
    form.open =>
        /\ form.selected5StarItems \subseteq form.included5StarItems
        /\ form.selected4StarItems \subseteq form.included4StarItems

\* the two effective rates the most recent draw compared its random value with
Rate5OfLast == caculate_rate_5star(config, input.pulls_since_5star + 1)

Rate4OfLast == caculate_rate_4star(config, input.pulls_since_4star + 1)

\* the tier the comparisons of the most recent draw's one random value give
TierByComparison ==
    IF last.local_random < Rate5OfLast THEN FiveStar
    ELSE IF last.local_random < Rate4OfLast THEN FourStar
    ELSE ThreeStar

\* the pools a hit of tier t selects from
PoolsOfTier(t) ==
    IF t = ThreeStar THEN {config.included_item_ids[ThreeStar]}
    ELSE {UpPool(config, t), NonUpPool(config, t)}

\* C24: the tier of a pull is decided by one random value r: the result is
\* 5-star exactly when r < effective 5-star rate, 4-star exactly when
\* r >= effective 5-star rate and r < effective 4-star rate (the same r),
\* 3-star otherwise; one tier is chosen, and 5-star when both tiers are at
\* hard pity.  A draw that fails selected from an empty pool of that tier.
C24_OneSampleTierDecision ==
    /\ last.kind = "ok" =>
          /\ (last.result.rarity = FiveStar) <=> (last.local_random < Rate5OfLast)
          /\ (last.result.rarity = FourStar) <=>
                (last.local_random >= Rate5OfLast /\ last.local_random < Rate4OfLast)
          /\ (last.result.rarity = ThreeStar) <=>
                (last.local_random >= Rate5OfLast /\ last.local_random >= Rate4OfLast)
          /\ (AtHardPity5(input) /\ AtHardPity4(input)) => last.result.rarity = FiveStar
    /\ last.kind = "EmptyPoolError" => {} \in PoolsOfTier(TierByComparison)

\* C24 witness: both tiers at hard pity after pulls without a hit, the
\* largest random value, a 5-star result
C24_Witness ==
    /\ AtHardPity5(input) /\ AtHardPity4(input)
    /\ input.pulls_since_5star > 0
    /\ input.pulls_since_4star > 0
    /\ last.local_random = Scale - 1
    /\ Returned(FiveStar)

\* C26: in every PityState a session reaches from the initial one by draws
\* against a validated config whose hard_pity_rate is 1 for both tiers,
\* 0 <= pulls_since_5star <= hard_pity_pull (5-star) - 1 and
\* 0 <= pulls_since_4star <= hard_pity_pull (4-star) - 1.
C26_CountersBounded ==
    (Validate(config) /\ HardPityRate(FiveStar) = Scale /\ HardPityRate(FourStar) = Scale) =>
        /\ state.pulls_since_5star >= 0
        /\ state.pulls_since_5star <= HardPityPull(FiveStar) - 1
        /\ state.pulls_since_4star >= 0
        /\ state.pulls_since_4star <= HardPityPull(FourStar) - 1

\* C26 witness: after an earlier 5-star result the pulls without one took
\* pulls_since_5star to its bound again
C26_Witness ==
    /\ Validate(config) /\ HardPityRate(FiveStar) = Scale /\ HardPityRate(FourStar) = Scale
    /\ prior5 # "none"
    /\ last.kind = "ok"
    /\ state.pulls_since_5star = HardPityPull(FiveStar) - 1
    /\ state.pulls_since_5star > 0

\* C21: every banner saveBanner posts has a 5-star hard_pity_pull that is
\* an integer greater than the end_pull of every soft-pity interval of the
\* banner; a form that violates this is not posted.
C21_SentHardPityExceedsEnds ==
    form.sent.posted =>
        /\ ~form.sent.hard_pity_pull.nan
        /\ \A i \in 1..Len(form.sent.soft_pity) :
              LessThan(form.sent.soft_pity[i].end_pull, form.sent.hard_pity_pull)

\* a posted soft_pity list: every interval start_pull < end_pull, the
\* ranges increasing and disjoint
PostedSoftPityOrdered(soft) ==
    /\ \A i \in 1..Len(soft) : LessThan(soft[i].start_pull, soft[i].end_pull)
    /\ \A i \in 1..Len(soft) : \A j \in 1..Len(soft) :
          i < j => LessThan(soft[i].end_pull, soft[j].start_pull)

\* C22: every banner an editor submits for saving (saveBanner after
\* validateForm) has a soft_pity list in which each interval has
\* start_pull < end_pull and the intervals are in increasing order with
\* pairwise disjoint ranges.
C22_SentSoftPityOrdered ==
    form.sent.posted => PostedSoftPityOrdered(form.sent.soft_pity)

\* base_5star_rate and base_4star_rate in [0,1] with a sum of at most 1
BaseRatesValid(c) ==
    /\ RateInRange(c.probability_settings.base_5star_rate)
    /\ RateInRange(c.probability_settings.base_4star_rate)
    /\ c.probability_settings.base_5star_rate + c.probability_settings.base_4star_rate <= Scale

\* C23: in the editor opened on a config with valid base rates, after any
\* updateRate calls with any input strings (negative and non-numeric ones
\* too) base_5star_rate and base_4star_rate each lie in [0,1], their sum is
\* at most 1, and after the rate effect base_3star_rate is
\* 1 - base_5star_rate - base_4star_rate and not negative.
C23_EditorKeepsBaseRatesValid ==
    (editor.view = "editor" /\ BaseRatesValid(editor.editingConfig)) =>
        /\ BaseRatesValid(editor.formData)
        /\ editor.formData.probability_settings.base_3star_rate =
              Scale - editor.formData.probability_settings.base_5star_rate
                    - editor.formData.probability_settings.base_4star_rate
        /\ editor.formData.probability_settings.base_3star_rate >= 0

\* the soft_pity intervals of both rarities
SoftPityIntervals(c) == [rarity \in {FiveStar, FourStar} |-> SoftPityOf(c, rarity)]

\* C27: after any addSoftPityInterval, removeSoftPityInterval and
\* updateSoftPityField calls in the editor followed by onCancel, the config
\* that was passed in as the config prop (an entry of configs, or a config
\* built from DEFAULT_CONFIG) and DEFAULT_CONFIG itself have the soft_pity
\* intervals they had before the editor was opened.
C27_CancelDiscardsEdit ==
    (editor.view = "configs" /\ editor.cancelled) =>
        /\ SoftPityIntervals(editor.editingConfig) = SoftPityIntervals(editor.opened.config)
        /\ SoftPityIntervals(editor.defaults) = SoftPityIntervals(editor.opened.defaults)


\* C28: whenever saveConfig returns false, the stored config files and their
\* contents are the ones from before the call, a renamed config included.
C28_FailedSaveLosesNothing ==
    (app.view # "off" /\ app.done.kind = "save" /\ ~app.done.success)
        => app.files = app.done.before

\* C29: the config file removed by executeDeleteConfig is the one whose delete
\* button was clicked, whatever reloads of the configs list complete between
\* the click and the confirmation.
C29_DeleteRemovesClickedConfig ==
    (app.view # "off" /\ app.done.kind = "delete" /\ app.done.filename # "")
        => app.done.filename = app.clicked.filename

\* the items the ItemManager table shows
TableItems == filteredItems(app.items, app.selectedConfigGroup)

\* C30: in whatever order overlapping fetchItems replies arrive, every item the
\* ItemManager table shows has the selected config group as its config_group
\* and is a row of that group's table.
C30_TableShowsSelectedGroupOnly ==
    app.view = "items" =>
        \A item \in TableItems :
            /\ item.config_group = app.selectedConfigGroup
            /\ item \in app.db

\* the reply for a group selected earlier arrived last: the App holds items
\* of that group while another group is selected
C30_Witness ==
    /\ app.view = "items"
    /\ app.fetching = <<>>
    /\ \E item \in app.items : item.config_group # app.selectedConfigGroup
    /\ TableItems = {}

\* how often the name occurs among the items added, and among the rows of a table
TimesAdded(items, name) == Cardinality({i \in 1..Len(items) : items[i].name = name})

TimesStored(db, group, name) == Cardinality({r \in TableOf(db, group) : r.name = name})

\* C25: handleImportCSV sends the clear-all DELETE of the selected config group
\* before the batch of imported items, and when the clear and the add succeed
\* the rows of that group are exactly the rows of the CSV file, the tables of
\* the other groups being as before.
C25_ImportOverwritesGroup ==
    (app.view = "items" /\ app.done.kind = "import") =>
        /\ app.done.requests = <<"DELETE", "POST">>
        /\ (app.done.cleared /\ app.done.added) =>
              /\ \A name \in ItemNames :
                    TimesStored(app.db, app.done.selectedConfigGroup, name)
                        = TimesAdded(app.done.itemsToAdd, name)
              /\ Cardinality(TableOf(app.db, app.done.selectedConfigGroup))
                    = Len(app.done.itemsToAdd)
              /\ \A group \in Groups \ {app.done.selectedConfigGroup} :
                    TableOf(app.db, group) = TableOf(app.done.before, group)

\* an import of two rows into a group that held another row, cleared and
\* added with success, while a different group is selected by now
C25_Witness ==
    /\ app.view = "items"
    /\ app.done.kind = "import"
    /\ app.done.cleared /\ app.done.added
    /\ Len(app.done.itemsToAdd) = 2
    /\ TableOf(app.done.before, app.done.selectedConfigGroup) # {}
    /\ app.selectedConfigGroup # app.done.selectedConfigGroup

====
